---- MODULE Spec2Model ----
(***************************************************************************)
(* OTP lifecycle of foddie_backend: the otpStore modules (single JSON key, *)
(* three-key split, in-memory Map fallback) and the /auth/otp/start and    *)
(* /auth/otp/verify handlers of server.js, over an expiring key-value      *)
(* store with per-key atomic primitives.                                   *)
(*                                                                         *)
(* Every step of a request is one store access (one await on the redis     *)
(* client).  The synchronous code that follows an await runs at the time   *)
(* of that access, so Date.now() read after  await redis.get(...)  is the  *)
(* time of the get; the next store access happens at the same time or      *)
(* later (Tick may fire in between).                                       *)
(***************************************************************************)
EXTENDS Integers, Sequences, FiniteSets, TLC

(* Configuration.  otpStore.js reads these from process.env; the model    *)
(* runs the program with OTP_TTL_MS=7, RESEND_COOLDOWN_MS=2 and            *)
(* MAX_RESENDS=2 (one time unit = one millisecond of Date.now()).          *)
OTP_TTL_MS == 7

RESEND_COOLDOWN_MS == 2

MAX_RESENDS == 2

(* The literal 5 of  if (entry.attempts > 5)  in the verify handler. *)
MAX_VERIFY_ATTEMPTS == 5

(* Bounds of the model. *)
MaxTime == 8

MaxCount == 3

MaxApiAttempts == 1

(* A request takes at most MaxLag time units from its first store access *)
(* to its response.                                                       *)
MaxLag == 1

Subjects == {"u1"}

(* Another user, on whose behalf no call is made. *)
Bystanders == {"u2"}

Users == Subjects \cup Bystanders

Codes == {"123456"}

Otps == Codes \cup {"000000"}

(* The values Math.random() may give the start handler. *)
StartCodes == Codes \cup {"654321"}

Procs == {"r1", "r2"}

Variants == {"single", "three", "memory"}

VARIABLES now, variant, store, rq, hist

vars == <<now, variant, store, rq, hist>>

----------------------------------------------------------------------------
(* Stored values.  Every value has the same record shape so that values  *)
(* of different kinds compare.                                            *)

Val(kind, email, codeHash, expiresAt, attempts, lastSentAt, resendCount) ==
  [kind |-> kind, email |-> email, codeHash |-> codeHash, expiresAt |-> expiresAt,
   attempts |-> attempts, lastSentAt |-> lastSentAt, resendCount |-> resendCount]

None == Val("none", "", "", 0, 0, 0, 0)

(* A legacy value that is not JSON, such as "[object Object]". *)
BadValue == Val("bad", "", "", 0, 0, 0, 0)

(* The value "1" of the cooldown key. *)
FlagValue == Val("flag", "", "", 0, 0, 0, 0)

HashValue(h) == Val("hash", "", h, 0, 0, 0, 0)

(* users.get(userId).email *)
EmailOf(u) == "mail-" \o u

(* bcrypt.hash(code, 10) and bcrypt.compare(otp, codeHash): one-way, and  *)
(* compare answers whether the hash was made from otp.                    *)
Hash(code) == "h$" \o code

Compare(otp, codeHash) == Hash(otp) = codeHash

----------------------------------------------------------------------------
(* The key-value store: a cell per key, with the absolute time after      *)
(* which the store no longer holds the key (NoExpiry: no TTL set).        *)

NoExpiry == -1

(* The keys are the strings the modules build from the userId. *)
(* A key that leaves the userId out. *)
keyFor_Shared(userId) == "otp:"

keyFor(userId) == "otp:" \o userId

kCode(userId) == "otp:code:" \o userId

kMeta(userId) == "otp:meta:" \o userId

kCd(userId) == "otp:cooldown:" \o userId

(* The Map of the fallback is keyed by the userId itself. *)
mapKey(userId) == userId

(* The keys the running variant uses for a user. *)
KeysOf(userId) ==
  CASE variant = "single" -> {keyFor(userId)}
    [] variant = "three" -> {kCode(userId), kMeta(userId), kCd(userId)}
    [] OTHER -> {mapKey(userId)}

Keys == UNION {KeysOf(u) : u \in Users}

AbsentCell == [val |-> None, exp |-> NoExpiry]

RedisGet(s, k) == s[k].val

RedisSet(s, k, v, px) == [s EXCEPT ![k] = [val |-> v, exp |-> now + px]]

RedisDel(s, k) == [s EXCEPT ![k] = AbsentCell]

RedisPttl(s, k) ==
  IF s[k].val.kind = "none" THEN -2
  ELSE IF s[k].exp = NoExpiry THEN -1
  ELSE s[k].exp - now

RedisPexpire(s, k, px) ==
  IF s[k].val.kind = "none" THEN s ELSE [s EXCEPT ![k].exp = now + px]

(* The store drops a key once the time is past its expiry. *)
Evict(s, t) ==
  [k \in Keys |-> IF s[k].exp # NoExpiry /\ t > s[k].exp THEN AbsentCell ELSE s[k]]

----------------------------------------------------------------------------
(* A request: its position, the operation it runs (op), the call it is   *)
(* inside (ctx), its arguments (u, otp), the entry it holds in hand, the  *)
(* TTL of the write it is about to make, and what it returned.  t0, pre   *)
(* and snap record when it made its first store access and what the       *)
(* store held then; sawCap, sawOk and sawWrong what verify requests had   *)
(* been answered by then since the subject's last issue.                  *)

Idle == [pc |-> "idle"]

(* A request before its first step. *)
Fresh ==
  [pc |-> "begin", op |-> "none", ctx |-> "none", u |-> "-", otp |-> "-",
   entry |-> None, px |-> 0, pend |-> {}, t0 |-> 0, pre |-> None,
   snap |-> <<>>, sawCap |-> FALSE, sawOk |-> FALSE, sawWrong |-> 0,
   res |-> "-", ret |-> None, retry |-> 0]

Done(r, res, ret, retry) ==
  [r EXCEPT !.pc = "done", !.res = res, !.ret = ret, !.retry = retry,
            !.entry = None, !.px = 0, !.pend = {}]

AllIdle == \A q \in Procs : rq[q].pc = "idle"

(* The key that holds the subject's entry in the running variant. *)
mainKey(u) ==
  CASE variant = "single" -> keyFor(u)
    [] variant = "three" -> kMeta(u)
    [] OTHER -> mapKey(u)

(* The operations whose answer is compared with what they found. *)
Observed == {"putOTP", "getOTP", "delOTP", "canResend", "markResent", "verify", "start"}

(* The first store access of a request. *)
Begin(op, u, otp) ==
  [Fresh EXCEPT !.op = op, !.ctx = op, !.u = u, !.otp = otp, !.t0 = now,
               !.pre = IF op \in Observed THEN RedisGet(store, mainKey(u)) ELSE None,
               !.snap = IF op = "canResend" THEN store ELSE <<>>]

----------------------------------------------------------------------------
(* otpStore.js, single JSON key                                           *)

coerceEntry(value) == IF value.kind = "entry" THEN value ELSE None

Truthy(raw) == raw.kind # "none"

Max(a, b) == IF a > b THEN a ELSE b

(* putOTP with an entry that is given no lifetime. *)
NewEntry_NoTtl(u, code) == Val("entry", EmailOf(u), Hash(code), now, 0, now, 0)

(* putOTP builds the entry at  now = Date.now() . *)
NewEntry(u, code) == Val("entry", EmailOf(u), Hash(code), now + OTP_TTL_MS, 0, now, 0)

(* saveOTPEntry that gives the entry a fresh lifetime on every save. *)
saveOTPEntry_Slide(r, entry) ==
  [r EXCEPT !.pc = "save_set", !.entry = [entry EXCEPT !.expiresAt = now + OTP_TTL_MS],
            !.px = OTP_TTL_MS]

(* saveOTPEntry up to its store access: delete when nothing remains,     *)
(* else write back with the remaining TTL.                                *)
saveOTPEntry(r, entry) ==
  LET remaining == Max(0, entry.expiresAt - now)
  IN  IF remaining <= 0
      THEN [r EXCEPT !.pc = "save_del", !.entry = entry]
      ELSE [r EXCEPT !.pc = "save_set", !.entry = entry, !.px = remaining]

(* canResend with the window closed one millisecond late. *)
canResendGate_Late(entry) ==
  IF entry.kind = "none" THEN [ok |-> TRUE, reason |-> "none", retryInMs |-> 0]
  ELSE IF now - entry.lastSentAt <= RESEND_COOLDOWN_MS
       THEN [ok |-> FALSE, reason |-> "cooldown",
             retryInMs |-> RESEND_COOLDOWN_MS - (now - entry.lastSentAt)]
  ELSE IF entry.resendCount >= MAX_RESENDS
       THEN [ok |-> FALSE, reason |-> "limit", retryInMs |-> 0]
  ELSE [ok |-> TRUE, reason |-> "none", retryInMs |-> 0]

(* canResend with the limit checked before the cooldown. *)
canResendGate_LimitFirst(entry) ==
  IF entry.kind = "none" THEN [ok |-> TRUE, reason |-> "none", retryInMs |-> 0]
  ELSE IF entry.resendCount >= MAX_RESENDS
       THEN [ok |-> FALSE, reason |-> "limit", retryInMs |-> 0]
  ELSE IF now - entry.lastSentAt < RESEND_COOLDOWN_MS
       THEN [ok |-> FALSE, reason |-> "cooldown",
             retryInMs |-> RESEND_COOLDOWN_MS - (now - entry.lastSentAt)]
  ELSE [ok |-> TRUE, reason |-> "none", retryInMs |-> 0]

(* canResend at its decision: cooldown first, then the limit. *)
canResendGate(entry) ==
  IF entry.kind = "none" THEN [ok |-> TRUE, reason |-> "none", retryInMs |-> 0]
  ELSE IF now - entry.lastSentAt < RESEND_COOLDOWN_MS
       THEN [ok |-> FALSE, reason |-> "cooldown",
             retryInMs |-> RESEND_COOLDOWN_MS - (now - entry.lastSentAt)]
  ELSE IF entry.resendCount >= MAX_RESENDS
       THEN [ok |-> FALSE, reason |-> "limit", retryInMs |-> 0]
  ELSE [ok |-> TRUE, reason |-> "none", retryInMs |-> 0]

GateResult(gate) == IF gate.ok THEN "allowed" ELSE gate.reason

(* markResent that stamps lastSentAt and forgets the count. *)
markResentEntry_NoCount(entry) == [entry EXCEPT !.lastSentAt = now]

(* markResent that also renews the entry's lifetime. *)
markResentEntry_Renew(entry) ==
  [entry EXCEPT !.resendCount = entry.resendCount + 1, !.lastSentAt = now,
                !.expiresAt = now + OTP_TTL_MS]

(* markResent after its read: nothing without an entry, else count the   *)
(* resend, stamp lastSentAt and save.                                     *)
markResentEntry(entry) ==
  [entry EXCEPT !.resendCount = entry.resendCount + 1, !.lastSentAt = now]

(* The three keys of the three-key layout, as the members of one         *)
(* Promise.all.                                                           *)
AllKeys3 == {"code", "meta", "cd"}

(* The start handler counting a resend although canResend refused. *)
AfterGet_DenyCounts(r, entry) ==
  CASE r.ctx = "getOTP" ->
         Done(r, IF entry.kind = "none" THEN "null" ELSE "entry", entry, 0)
    [] r.ctx = "canResend" ->
         LET gate == canResendGate(entry)
         IN  Done(r, GateResult(gate), None, gate.retryInMs)
    [] r.ctx = "markResent" ->
         IF entry.kind = "none" THEN Done(r, "void", None, 0)
         ELSE saveOTPEntry(r, markResentEntry(entry))
    [] r.ctx = "verify" ->
         IF entry.kind = "none" THEN Done(r, "expired", None, 0)
         ELSE saveOTPEntry(r, [entry EXCEPT !.attempts = entry.attempts + 1])
    [] r.ctx = "start" ->
         IF entry.kind = "none"
         THEN [r EXCEPT !.pc = "put_set", !.entry = NewEntry(r.u, r.otp)]
         ELSE [r EXCEPT !.pc = "get", !.ctx = "start/canResend"]
    [] r.ctx = "start/canResend" ->
         LET gate == canResendGate(entry)
         IN  IF gate.ok THEN [r EXCEPT !.pc = "mail", !.ctx = "start/resend"]
             ELSE [r EXCEPT !.pc = "get", !.ctx = "start/markResent"]
    [] r.ctx = "start/markResent" ->
         IF entry.kind = "none" THEN Done(r, "ok_resent", None, 0)
         ELSE saveOTPEntry(r, markResentEntry(entry))

(* The code that runs when getOTP has returned  entry  (None for null)   *)
(* to the call the request is inside.                                     *)
AfterGet(r, entry) ==
  CASE r.ctx = "getOTP" ->
         Done(r, IF entry.kind = "none" THEN "null" ELSE "entry", entry, 0)
    [] r.ctx = "canResend" ->
         LET gate == canResendGate(entry)
         IN  Done(r, GateResult(gate), None, gate.retryInMs)
    [] r.ctx = "markResent" ->
         IF entry.kind = "none" THEN Done(r, "void", None, 0)
         ELSE saveOTPEntry(r, markResentEntry(entry))
    [] r.ctx = "verify" ->
         IF entry.kind = "none" THEN Done(r, "expired", None, 0)
         ELSE saveOTPEntry(r, [entry EXCEPT !.attempts = entry.attempts + 1])
    [] r.ctx = "start" ->
         IF entry.kind = "none"
         THEN [r EXCEPT !.pc = "put_set", !.entry = NewEntry(r.u, r.otp)]
         ELSE [r EXCEPT !.pc = "get", !.ctx = "start/canResend"]
    [] r.ctx = "start/canResend" ->
         LET gate == canResendGate(entry)
         IN  IF gate.ok THEN [r EXCEPT !.pc = "mail", !.ctx = "start/resend"]
             ELSE Done(r, "429_" \o gate.reason, None, gate.retryInMs)
    [] r.ctx = "start/markResent" ->
         IF entry.kind = "none" THEN Done(r, "ok_resent", None, 0)
         ELSE saveOTPEntry(r, markResentEntry(entry))

(* getOTP that already purges at  now = expiresAt . *)
getOTP_PurgeAtExpiry(r) ==
  LET raw == RedisGet(store, keyFor(r.u))
      entry == coerceEntry(raw)
  IN  IF entry.kind = "none"
      THEN IF Truthy(raw) THEN [r EXCEPT !.pc = "get_del"] ELSE AfterGet(r, None)
      ELSE IF now >= entry.expiresAt THEN [r EXCEPT !.pc = "get_del"]
      ELSE AfterGet(r, entry)

(* getOTP that trusts the store to have dropped what has expired. *)
getOTP_TrustStore(r) ==
  LET raw == RedisGet(store, keyFor(r.u))
      entry == coerceEntry(raw)
  IN  IF entry.kind = "none"
      THEN IF Truthy(raw) THEN [r EXCEPT !.pc = "get_del"] ELSE AfterGet(r, None)
      ELSE AfterGet(r, entry)

(* getOTP at its redis.get: null for a missing, malformed or expired     *)
(* value, after deleting a malformed or expired one.                      *)
getOTP(r) ==
  LET raw == RedisGet(store, keyFor(r.u))
      entry == coerceEntry(raw)
  IN  IF entry.kind = "none"
      THEN IF Truthy(raw) THEN [r EXCEPT !.pc = "get_del"] ELSE AfterGet(r, None)
      ELSE IF now > entry.expiresAt THEN [r EXCEPT !.pc = "get_del"]
      ELSE AfterGet(r, entry)

(* The verify handler with the cap one attempt early. *)
AfterSave_CapEarly(r) ==
  CASE r.ctx = "markResent" -> Done(r, "void", None, 0)
    [] r.ctx = "start/markResent" -> Done(r, "ok_resent", None, 0)
    [] r.ctx = "verify" ->
         IF r.entry.attempts >= MAX_VERIFY_ATTEMPTS
         THEN [r EXCEPT !.pc = "del", !.ctx = "verify/cap"]
         ELSE IF ~Compare(r.otp, r.entry.codeHash)
              THEN Done(r, "invalid_code", None, 0)
              ELSE [r EXCEPT !.pc = "upd_pw"]

(* The verify handler without the cap. *)
AfterSave_NoCap(r) ==
  CASE r.ctx = "markResent" -> Done(r, "void", None, 0)
    [] r.ctx = "start/markResent" -> Done(r, "ok_resent", None, 0)
    [] r.ctx = "verify" ->
         IF ~Compare(r.otp, r.entry.codeHash)
         THEN Done(r, "invalid_code", None, 0)
         ELSE [r EXCEPT !.pc = "upd_pw"]

(* The verify handler comparing the code before looking at the cap. *)
AfterSave_CompareFirst(r) ==
  CASE r.ctx = "markResent" -> Done(r, "void", None, 0)
    [] r.ctx = "start/markResent" -> Done(r, "ok_resent", None, 0)
    [] r.ctx = "verify" ->
         IF Compare(r.otp, r.entry.codeHash)
         THEN [r EXCEPT !.pc = "upd_pw"]
         ELSE IF r.entry.attempts > MAX_VERIFY_ATTEMPTS
              THEN [r EXCEPT !.pc = "del", !.ctx = "verify/cap"]
              ELSE Done(r, "invalid_code", None, 0)

(* The code after saveOTPEntry returned. *)
AfterSave(r) ==
  CASE r.ctx = "markResent" -> Done(r, "void", None, 0)
    [] r.ctx = "start/markResent" -> Done(r, "ok_resent", None, 0)
    [] r.ctx = "verify" ->
         IF r.entry.attempts > MAX_VERIFY_ATTEMPTS
         THEN [r EXCEPT !.pc = "del", !.ctx = "verify/cap"]
         ELSE IF ~Compare(r.otp, r.entry.codeHash)
              THEN Done(r, "invalid_code", None, 0)
              ELSE [r EXCEPT !.pc = "upd_pw"]

(* The code after delOTP returned. *)
AfterDel(r) ==
  CASE r.ctx = "delOTP" -> Done(r, "void", None, 0)
    [] r.ctx = "verify/cap" -> Done(r, "too_many_attempts", None, 0)
    [] r.ctx = "verify/ok" -> Done(r, "ok", None, 0)

(* The code after putOTP returned its entry. *)
AfterPut(r) ==
  CASE r.ctx = "putOTP" -> Done(r, "entry", r.entry, 0)
    [] r.ctx = "start" -> [r EXCEPT !.pc = "mail", !.ctx = "start/issue"]

----------------------------------------------------------------------------
(* otpStore.js, three keys: otp:code, otp:meta, otp:cooldown              *)

(* getOTP at its redis.get of the meta key: null when missing; an        *)
(* expired entry is deleted (delOTP, three deletes at once) first.        *)
(* JSON.parse(metaStr) stands outside any try: a value that is not JSON   *)
(* makes the call throw, here and in canResend and markResent.            *)
getOTP3(r) ==
  LET metaStr == RedisGet(store, kMeta(r.u))
  IN  IF metaStr.kind = "none" THEN AfterGet(r, None)
      ELSE IF metaStr.kind = "bad" THEN Done(r, "throws", None, 0)
      ELSE IF now > metaStr.expiresAt
           THEN [r EXCEPT !.pc = "getdel3", !.pend = AllKeys3]
      ELSE AfterGet(r, metaStr)

(* saveOTPEntry after its redis.pttl of the meta key: the write keeps the *)
(* TTL read, or takes OTP_TTL_MS when the read gave none.                 *)
saveOTPEntry3(r) ==
  LET ttl == RedisPttl(store, kMeta(r.u))
      px == IF ttl > 0 THEN ttl ELSE OTP_TTL_MS
  IN  [r EXCEPT !.pc = "save3", !.px = px, !.pend = {"meta", "code"}]

(* canResend at its redis.pttl of the cooldown key. *)
canResend3(r) ==
  LET ttl == RedisPttl(store, kCd(r.u))
  IN  IF ttl > 0 THEN Done(r, "cooldown", None, ttl)
      ELSE [r EXCEPT !.pc = "gate3"]

(* canResend at its redis.get of the meta key. *)
canResendMeta3(r) ==
  LET metaStr == RedisGet(store, kMeta(r.u))
  IN  IF metaStr.kind = "none" THEN Done(r, "allowed", None, 0)
      ELSE IF metaStr.kind = "bad" THEN Done(r, "throws", None, 0)
      ELSE IF metaStr.resendCount >= MAX_RESENDS THEN Done(r, "limit", None, 0)
      ELSE Done(r, "allowed", None, 0)

(* markResent at its redis.get of the meta key. *)
markResent3(r) ==
  LET metaStr == RedisGet(store, kMeta(r.u))
  IN  IF metaStr.kind = "none" THEN Done(r, "void", None, 0)
      ELSE IF metaStr.kind = "bad" THEN Done(r, "throws", None, 0)
      ELSE [r EXCEPT !.pc = "pttl3", !.entry = markResentEntry(metaStr)]

(* One member of a Promise.all of the request: of putOTP's three sets,   *)
(* of saveOTPEntry's set and pexpire, of delOTP's three deletes.          *)
Member3(r, k) ==
  CASE r.pc = "put3" /\ k = "code" ->
         RedisSet(store, kCode(r.u), HashValue(r.entry.codeHash), OTP_TTL_MS)
    [] r.pc = "put3" /\ k = "meta" -> RedisSet(store, kMeta(r.u), r.entry, OTP_TTL_MS)
    [] r.pc = "put3" /\ k = "cd" -> RedisSet(store, kCd(r.u), FlagValue, RESEND_COOLDOWN_MS)
    [] r.pc = "save3" /\ k = "meta" -> RedisSet(store, kMeta(r.u), r.entry, r.px)
    [] r.pc = "save3" /\ k = "code" -> RedisPexpire(store, kCode(r.u), r.px)
    [] r.pc \in {"del3", "getdel3"} /\ k = "code" -> RedisDel(store, kCode(r.u))
    [] r.pc \in {"del3", "getdel3"} /\ k = "meta" -> RedisDel(store, kMeta(r.u))
    [] r.pc \in {"del3", "getdel3"} /\ k = "cd" -> RedisDel(store, kCd(r.u))

(* The code after the last member of a Promise.all. *)
AfterAll3(r) ==
  CASE r.pc = "put3" -> AfterPut(r)
    [] r.pc = "del3" -> AfterDel(r)
    [] r.pc = "getdel3" -> AfterGet(r, None)
    [] r.pc = "save3" ->
         IF r.ctx = "markResent" THEN [r EXCEPT !.pc = "cd3"] ELSE AfterSave(r)

----------------------------------------------------------------------------
(* The in-memory fallback: a Map from userId to the entry object; no key *)
(* expires by itself.                                                     *)

MapSet(s, k, v) == [s EXCEPT ![k] = [val |-> v, exp |-> NoExpiry]]

MapDelete(s, k) == [s EXCEPT ![k] = AbsentCell]

(* getOTP: the entry, or null after deleting an expired one. *)
getOTPMem(u) ==
  LET e == RedisGet(store, mapKey(u))
  IN  IF e.kind = "none" THEN [ret |-> None, s |-> store]
      ELSE IF now > e.expiresAt THEN [ret |-> None, s |-> MapDelete(store, mapKey(u))]
      ELSE [ret |-> e, s |-> store]

(* canResend reads the Map itself, not getOTP. *)
canResendMem(u) == canResendGate(RedisGet(store, mapKey(u)))

(* markResent updates the entry object in place. *)
markResentMem(u) ==
  LET e == RedisGet(store, mapKey(u))
  IN  IF e.kind = "none" THEN store
      ELSE MapSet(store, mapKey(u), markResentEntry(e))

----------------------------------------------------------------------------
(* History kept for the properties: per subject, the number of           *)
(* markResent writes to the entry the store holds, and since the last     *)
(* issue the number of completed verify calls that found the entry and    *)
(* carried another code than its own, the number of verify calls answered *)
(* ok:true, whether a verify was answered too_many_attempts, and whether  *)
(* one was answered with the error of users.updatePassword; and the age   *)
(* of the last email to the subject and the number of resend emails sent  *)
(* for the stored entry; and the number of delOTP calls since the last    *)
(* issue (counted up to 2).                                               *)

(* No email has been sent to the subject yet. *)
NoMail == -1

HistInit ==
  [seq |-> TRUE,
   marks |-> [u \in Subjects |-> 0],
   wrongRun |-> [u \in Subjects |-> 0],
   okCount |-> [u \in Subjects |-> 0],
   capped |-> [u \in Subjects |-> FALSE],
   failed |-> [u \in Subjects |-> FALSE],
   mailAge |-> [u \in Subjects |-> NoMail],
   resends |-> [u \in Subjects |-> 0],
   dels |-> [u \in Subjects |-> 0],
   life |-> FALSE,
   lastExp |-> [u \in Subjects |-> NoExpiry]]

Min(a, b) == IF a < b THEN a ELSE b

HistIssue(h, u) ==
  [h EXCEPT !.marks[u] = 0, !.wrongRun[u] = 0,
            !.okCount[u] = 0, !.capped[u] = FALSE, !.failed[u] = FALSE,
            !.resends[u] = 0, !.dels[u] = 0]

HistMark(h, u) ==
  IF h.seq THEN [h EXCEPT !.marks[u] = Min(h.marks[u] + 1, MaxCount + 1)] ELSE h

(* sendEmail has delivered to the subject: mailAge is the time since the *)
(* last delivery (counted up to RESEND_COOLDOWN_MS).                      *)
HistMail(h, u) == IF h.seq THEN [h EXCEPT !.mailAge[u] = 0] ELSE h

(* The start handler has sent a resend email for the subject's entry. *)
HistResend(h, u) ==
  IF h.seq THEN [h EXCEPT !.resends[u] = Min(h.resends[u] + 1, MAX_RESENDS + 1)] ELSE h

(* One millisecond passes; lastExp, the expiresAt that putOTP gave the    *)
(* latest entry issued to the subject (the time of its Date.now() + ttl), *)
(* is forgotten once it is past.                                          *)
HistTick(h) ==
  [h EXCEPT !.mailAge = [u \in Subjects |->
                           IF h.mailAge[u] = NoMail THEN NoMail
                           ELSE Min(h.mailAge[u] + 1, RESEND_COOLDOWN_MS)],
            !.lastExp = [u \in Subjects |->
                           IF now + 1 > h.lastExp[u] THEN NoExpiry
                           ELSE h.lastExp[u]]]

(* The history after a step that leaves the request as r2. *)
HistDone(h, r2) ==
  IF r2.pc = "done" /\ r2.op = "delOTP" /\ h.seq
  THEN [h EXCEPT !.dels[r2.u] = Min(h.dels[r2.u] + 1, 2)]
  ELSE IF r2.pc = "done" /\ r2.op = "verify"
  THEN [h EXCEPT
          !.wrongRun[r2.u] = IF h.seq /\ r2.res # "expired"
                                /\ ~Compare(r2.otp, r2.pre.codeHash)
                             THEN Min(h.wrongRun[r2.u] + 1, MAX_VERIFY_ATTEMPTS + 2)
                             ELSE h.wrongRun[r2.u],
          !.okCount[r2.u] = IF r2.res = "ok" THEN Min(h.okCount[r2.u] + 1, 2)
                            ELSE h.okCount[r2.u],
          !.capped[r2.u] = h.capped[r2.u] \/ r2.res = "too_many_attempts",
          !.failed[r2.u] = h.failed[r2.u] \/ (h.seq /\ r2.res = "update_failed")]
  ELSE h

(* marks and resends count the writes to and the resend emails for the  *)
(* stored entry: none without an entry.                                   *)
HistStore(h, s2) ==
  [h EXCEPT !.marks = [u \in Subjects |->
                         IF s2[mainKey(u)].val.kind = "entry" THEN h.marks[u] ELSE 0],
            !.resends = [u \in Subjects |->
                           IF s2[mainKey(u)].val.kind = "entry" THEN h.resends[u] ELSE 0]]

(* With no request in flight, lastExp is kept only for a subject whose   *)
(* entry is stored.                                                       *)
HistQuiet(h, rq2, s2) ==
  IF \A q \in Procs : rq2[q].pc = "idle"
  THEN [h EXCEPT !.lastExp = [u \in Subjects |->
                                IF s2[mainKey(u)].val.kind = "entry" THEN h.lastExp[u]
                                ELSE NoExpiry]]
  ELSE h

(* An answer is taken from its slot before another request answers       *)
(* (Recycle takes no time and leaves the store alone).                    *)
Taken(p, r2) == r2.pc = "done" => \A q \in Procs \ {p} : rq[q].pc # "done"

(* One step of request p: its new record and the new store. *)
Step(p, r2, s2) ==
  /\ Taken(p, r2)
  /\ rq' = [rq EXCEPT ![p] = r2]
  /\ store' = s2
  /\ hist' = HistQuiet(HistStore(HistDone(hist, r2), s2), [rq EXCEPT ![p] = r2], s2)
  /\ UNCHANGED <<now, variant>>

----------------------------------------------------------------------------
(* Calls of the exported operations and requests to the two handlers.    *)

CallPutOTP(p, u, code) ==
  /\ rq[p].pc = "idle" /\ variant = "single"
  /\ Step(p, [Begin("putOTP", u, code) EXCEPT !.pc = "put_set",
                                              !.entry = NewEntry(u, code)], store)

CallGetOTP(p, u) ==
  /\ rq[p].pc = "idle" /\ variant = "single"
  /\ Step(p, getOTP(Begin("getOTP", u, "-")), store)

(* delOTP that deletes only a well-formed entry. *)
CallDelOTP_IfEntry(p, u) ==
  /\ rq[p].pc = "idle" /\ variant = "single"
  /\ Step(p, AfterDel(Begin("delOTP", u, "-")),
          IF RedisGet(store, keyFor(u)).kind = "entry"
          THEN RedisDel(store, keyFor(u)) ELSE store)

CallDelOTP(p, u) ==
  /\ rq[p].pc = "idle" /\ variant = "single"
  /\ Step(p, AfterDel(Begin("delOTP", u, "-")), RedisDel(store, keyFor(u)))

CallCanResend(p, u) ==
  /\ rq[p].pc = "idle" /\ variant = "single"
  /\ Step(p, getOTP(Begin("canResend", u, "-")), store)

CallMarkResent(p, u) ==
  /\ rq[p].pc = "idle" /\ variant = "single"
  /\ RedisGet(store, mainKey(u)).resendCount < MaxCount
  /\ Step(p, getOTP(Begin("markResent", u, "-")), store)

(* A verify handler that takes whatever entry the store still holds. *)
ReqVerify_TrustStore(p, u, otp) ==
  /\ rq[p].pc = "idle" /\ variant = "single"
  /\ Step(p, getOTP_TrustStore([Begin("verify", u, otp) EXCEPT
                                  !.sawCap = hist.capped[u],
                                  !.sawOk = hist.okCount[u] > 0,
                                  !.sawWrong = hist.wrongRun[u]]), store)

(* POST /auth/otp/verify with body {userId: u, otp} *)
ReqVerify(p, u, otp) ==
  /\ rq[p].pc = "idle" /\ variant = "single"
  /\ Step(p, getOTP([Begin("verify", u, otp) EXCEPT
                       !.sawCap = hist.capped[u],
                       !.sawOk = hist.okCount[u] > 0,
                       !.sawWrong = hist.wrongRun[u]]), store)

(* POST /auth/otp/start with body {userId: u}; code is the value drawn   *)
(* by Math.random() should the request issue.                             *)
ReqStart(p, u, code) ==
  /\ rq[p].pc = "idle" /\ variant = "single"
  /\ Step(p, getOTP(Begin("start", u, code)), store)

(* A later getOTP of the same request (inside canResend, markResent). *)
GetStep(p) ==
  /\ rq[p].pc = "get"
  /\ Step(p, getOTP(rq[p]), store)

(* getOTP's  redis.del  of a malformed or expired value. *)
GetDel(p) ==
  /\ rq[p].pc = "get_del"
  /\ Step(p, AfterGet(rq[p], None), RedisDel(store, keyFor(rq[p].u)))

(* A save that adds one to the attempts the store holds at the write. *)
SaveSet_Atomic(p) ==
  /\ rq[p].pc = "save_set"
  /\ Step(p, AfterSave(rq[p]),
          RedisSet(store, keyFor(rq[p].u),
                   IF rq[p].ctx = "verify"
                   THEN [rq[p].entry EXCEPT
                           !.attempts = RedisGet(store, keyFor(rq[p].u)).attempts + 1]
                   ELSE rq[p].entry, rq[p].px))

(* saveOTPEntry's  redis.set(key, JSON.stringify(entry), {px: remaining}) *)
SaveSet(p) ==
  /\ rq[p].pc = "save_set"
  /\ Taken(p, AfterSave(rq[p]))
  /\ rq' = [rq EXCEPT ![p] = AfterSave(rq[p])]
  /\ store' = RedisSet(store, keyFor(rq[p].u), rq[p].entry, rq[p].px)
  /\ hist' = HistStore(HistDone(IF rq[p].ctx \in {"markResent", "start/markResent"}
                                THEN HistMark(hist, rq[p].u) ELSE hist,
                                AfterSave(rq[p])), store')
  /\ UNCHANGED <<now, variant>>

(* saveOTPEntry's  redis.del  when no TTL remains. *)
SaveDel(p) ==
  /\ rq[p].pc = "save_del"
  /\ Step(p, AfterSave(rq[p]), RedisDel(store, keyFor(rq[p].u)))

(* delOTP inside the verify handler. *)
DelStep(p) ==
  /\ rq[p].pc = "del"
  /\ Step(p, AfterDel(rq[p]), RedisDel(store, keyFor(rq[p].u)))

(* The step of request p that stores a new entry for its subject. *)
IssueStep(p, r2, s2) ==
  /\ Taken(p, r2)
  /\ rq' = [q \in Procs |->
              IF q = p THEN r2
              ELSE IF rq[q].pc # "idle" /\ rq[q].u = r2.u
                   THEN [rq[q] EXCEPT !.sawCap = FALSE, !.sawOk = FALSE, !.sawWrong = 0]
              ELSE rq[q]]
  /\ store' = s2
  /\ hist' = HistStore([HistIssue(hist, r2.u) EXCEPT
                          !.lastExp[r2.u] = IF hist.life
                                            THEN s2[mainKey(r2.u)].val.expiresAt
                                            ELSE NoExpiry], s2)
  /\ UNCHANGED <<now, variant>>

(* putOTP's  redis.set(key, JSON.stringify(entry), {px: OTP_TTL_MS}) *)
PutSet(p) ==
  /\ rq[p].pc = "put_set"
  /\ IssueStep(p, AfterPut(rq[p]),
               RedisSet(store, keyFor(rq[p].u), rq[p].entry, OTP_TTL_MS))

(* The handler answering ok:true without delOTP. *)
UpdatePassword_NoDel(p) ==
  /\ rq[p].pc = "upd_pw"
  /\ Step(p, Done(rq[p], "ok", None, 0), store)

(* users.updatePassword succeeds: the handler goes on to delOTP. *)
UpdatePassword(p) ==
  /\ rq[p].pc = "upd_pw"
  /\ Step(p, [rq[p] EXCEPT !.pc = "del", !.ctx = "verify/ok"], store)

(* A failed users.updatePassword that also drops the entry. *)
UpdatePasswordFails_Del(p) ==
  /\ rq[p].pc = "upd_pw"
  /\ Step(p, Done(rq[p], "update_failed", None, 0), RedisDel(store, keyFor(rq[p].u)))

(* users.updatePassword throws: 500, the entry is left alone. *)
UpdatePasswordFails(p) ==
  /\ rq[p].pc = "upd_pw"
  /\ Step(p, Done(rq[p], "update_failed", None, 0), store)

(* A resend that issues a fresh code instead of marking the entry. *)
SendEmail_Rotate(p) ==
  /\ rq[p].pc = "mail"
  /\ Step(p, IF rq[p].ctx = "start/resend"
             THEN [rq[p] EXCEPT !.pc = "put_set", !.ctx = "start",
                                !.entry = NewEntry(rq[p].u, rq[p].otp)]
             ELSE Done(rq[p], "ok_issued", None, 0), store)

(* sendEmail succeeds: a resend goes on to markResent, an issue answers. *)
SendEmail(p) ==
  /\ rq[p].pc = "mail"
  /\ LET r2 == IF rq[p].ctx = "start/resend"
               THEN [rq[p] EXCEPT !.pc = "get", !.ctx = "start/markResent"]
               ELSE Done(rq[p], "ok_issued", None, 0)
     IN  /\ Taken(p, r2)
         /\ rq' = [rq EXCEPT ![p] = r2]
         /\ hist' = HistStore(HistDone(HistMail(IF rq[p].ctx = "start/resend"
                                                 THEN HistResend(hist, rq[p].u)
                                                 ELSE hist, rq[p].u), r2), store)
         /\ UNCHANGED <<now, variant, store>>

(* sendEmail throws: the error handler answers. *)
SendEmailFails(p) ==
  /\ rq[p].pc = "mail"
  /\ Step(p, Done(rq[p], "mail_failed", None, 0), store)

----------------------------------------------------------------------------
(* The three-key layout. *)

CallPutOTP3(p, u, code) ==
  /\ rq[p].pc = "idle" /\ variant = "three"
  /\ Step(p, [Begin("putOTP", u, code) EXCEPT !.pc = "put3", !.pend = AllKeys3,
                                              !.entry = NewEntry(u, code)], store)

CallGetOTP3(p, u) ==
  /\ rq[p].pc = "idle" /\ variant = "three"
  /\ Step(p, getOTP3(Begin("getOTP", u, "-")), store)

CallDelOTP3(p, u) ==
  /\ rq[p].pc = "idle" /\ variant = "three"
  /\ Step(p, [Begin("delOTP", u, "-") EXCEPT !.pc = "del3", !.pend = AllKeys3], store)

CallCanResend3(p, u) ==
  /\ rq[p].pc = "idle" /\ variant = "three"
  /\ Step(p, canResend3(Begin("canResend", u, "-")), store)

CallMarkResent3(p, u) ==
  /\ rq[p].pc = "idle" /\ variant = "three"
  /\ RedisGet(store, kMeta(u)).resendCount < MaxCount
  /\ Step(p, markResent3(Begin("markResent", u, "-")), store)

(* canResend's second read. *)
Gate3(p) ==
  /\ rq[p].pc = "gate3"
  /\ Step(p, canResendMeta3(rq[p]), store)

(* saveOTPEntry's  redis.pttl(kMeta(userId)) *)
Pttl3(p) ==
  /\ rq[p].pc = "pttl3"
  /\ Step(p, saveOTPEntry3(rq[p]), store)

(* One member of the request's Promise.all reaches the store. *)
All3(p, k) ==
  /\ rq[p].pc \in {"put3", "save3", "del3", "getdel3"}
  /\ k \in rq[p].pend
  /\ LET r == rq[p]
         r1 == [r EXCEPT !.pend = r.pend \ {k}]
         r2 == IF r1.pend = {} THEN AfterAll3(r1) ELSE r1
         s2 == Member3(r, k)
     IN  IF r.pc = "put3" /\ k = "meta" THEN IssueStep(p, r2, s2)
         ELSE /\ Taken(p, r2)
              /\ rq' = [rq EXCEPT ![p] = r2]
              /\ store' = s2
              /\ hist' = HistStore(HistDone(IF r.pc = "save3" /\ k = "meta"
                                                 /\ r.ctx = "markResent"
                                            THEN HistMark(hist, r.u) ELSE hist, r2), s2)
              /\ UNCHANGED <<now, variant>>

(* markResent's  redis.set(kCd(userId), "1", {px: RESEND_COOLDOWN_MS}) *)
Cd3(p) ==
  /\ rq[p].pc = "cd3"
  /\ Step(p, Done(rq[p], "void", None, 0),
          RedisSet(store, kCd(rq[p].u), FlagValue, RESEND_COOLDOWN_MS))

----------------------------------------------------------------------------
(* The in-memory fallback: every operation is one synchronous step. *)

CallPutOTPMem(p, u, code) ==
  /\ rq[p].pc = "idle" /\ variant = "memory"
  /\ IssueStep(p, Done([Begin("putOTP", u, code) EXCEPT !.entry = NewEntry(u, code)],
                       "entry", NewEntry(u, code), 0),
               MapSet(store, mapKey(u), NewEntry(u, code)))

CallGetOTPMem(p, u) ==
  /\ rq[p].pc = "idle" /\ variant = "memory"
  /\ Step(p, Done(Begin("getOTP", u, "-"),
                  IF getOTPMem(u).ret.kind = "none" THEN "null" ELSE "entry",
                  getOTPMem(u).ret, 0), getOTPMem(u).s)

CallDelOTPMem(p, u) ==
  /\ rq[p].pc = "idle" /\ variant = "memory"
  /\ Step(p, Done(Begin("delOTP", u, "-"), "void", None, 0), MapDelete(store, mapKey(u)))

CallCanResendMem(p, u) ==
  /\ rq[p].pc = "idle" /\ variant = "memory"
  /\ Step(p, Done(Begin("canResend", u, "-"), GateResult(canResendMem(u)), None,
                  canResendMem(u).retryInMs), store)

CallMarkResentMem(p, u) ==
  /\ rq[p].pc = "idle" /\ variant = "memory"
  /\ RedisGet(store, mapKey(u)).resendCount < MaxCount
  /\ Taken(p, Done(Begin("markResent", u, "-"), "void", None, 0))
  /\ rq' = [rq EXCEPT ![p] = Done(Begin("markResent", u, "-"), "void", None, 0)]
  /\ store' = markResentMem(u)
  /\ hist' = HistStore(IF RedisGet(store, mapKey(u)).kind = "none" THEN hist
                       ELSE HistMark(hist, u), store')
  /\ UNCHANGED <<now, variant>>

(* The response has been sent; the slot serves the next request. *)
Recycle(p) ==
  /\ rq[p].pc = "done"
  /\ Step(p, Idle, store)

(* Time passes; the store drops the keys whose TTL has run out. *)
Tick ==
  /\ now < MaxTime
  /\ \A p \in Procs : rq[p].pc \notin {"idle", "done"} => now - rq[p].t0 < MaxLag
  /\ now' = now + 1
  /\ store' = Evict(store, now + 1)
  /\ hist' = HistQuiet(HistStore(HistTick(hist), Evict(store, now + 1)), rq,
                       Evict(store, now + 1))
  /\ UNCHANGED <<variant, rq>>

----------------------------------------------------------------------------
(* The store starts empty, or, in the layouts named, with a value that   *)
(* is not JSON under the key of a subject's entry.                        *)
InitStoreIn(v, layouts) ==
  /\ now = 0
  /\ variant = v
  /\ \E legacy \in SUBSET Subjects :
       /\ v \notin layouts => legacy = {}
       /\ store = [k \in Keys |->
                     IF \E u \in legacy : k = mainKey(u)
                     THEN [val |-> BadValue, exp |-> NoExpiry] ELSE AbsentCell]
  /\ rq = [p \in Procs |-> Idle]
  /\ hist = HistInit

(* The store starts empty, or, in the single-key layout, with a legacy   *)
(* value that is not JSON under a subject's key.                          *)
InitStore(v) == InitStoreIn(v, {"single"})

Init == InitStore("single")

InitApi == \E v \in Variants : InitStore(v)

(* The steps a request takes once begun. *)
Steps(p) ==
  \/ GetStep(p)
  \/ GetDel(p)
  \/ SaveSet(p)
  \/ SaveDel(p)
  \/ DelStep(p)
  \/ PutSet(p)
  \/ UpdatePassword(p)
  \/ UpdatePasswordFails(p)
  \/ SendEmail(p)
  \/ SendEmailFails(p)
  \/ Recycle(p)

(* The steps of the exported operations and of verify. *)
StepsApi(p) ==
  \/ GetDel(p)
  \/ SaveSet(p)
  \/ SaveDel(p)
  \/ DelStep(p)
  \/ PutSet(p)
  \/ UpdatePassword(p)
  \/ UpdatePasswordFails(p)
  \/ Recycle(p)

(* The steps of the exported operations in the three layouts. *)
StepsStores(p) ==
  \/ GetDel(p)
  \/ SaveSet(p)
  \/ SaveDel(p)
  \/ PutSet(p)
  \/ Gate3(p)
  \/ Pttl3(p)
  \/ \E k \in AllKeys3 : All3(p, k)
  \/ Cd3(p)
  \/ Recycle(p)

SeqProc == "r1"

(* A verify request while the stored entry has seen fewer than           *)
(* MaxApiAttempts attempts.                                               *)
CallVerify(p, u, otp) ==
  /\ RedisGet(store, mainKey(u)).attempts < MaxApiAttempts
  /\ ReqVerify(p, u, otp)

(* The exported operations of the single-key otpStore.js, called one at  *)
(* a time in any order by a caller, with attempts recorded by verify      *)
(* requests.                                                              *)
NextApi ==
  \/ /\ AllIdle
     /\ \E u \in Subjects :
          \/ \E c \in Codes : CallPutOTP(SeqProc, u, c)
          \/ CallGetOTP(SeqProc, u)
          \/ CallDelOTP(SeqProc, u)
          \/ CallCanResend(SeqProc, u)
          \/ CallMarkResent(SeqProc, u)
          \/ \E otp \in Otps : CallVerify(SeqProc, u, otp)
  \/ \E p \in Procs : StepsApi(p)
  \/ Tick

SpecApi == Init /\ [][NextApi]_vars

(* The exported operations of each store layout, called one at a time   *)
(* in any order by a caller.                                              *)
NextSeq ==
  \/ /\ AllIdle
     /\ \E u \in Subjects :
          \/ \E c \in Codes : CallPutOTP(SeqProc, u, c)
          \/ CallGetOTP(SeqProc, u)
          \/ CallDelOTP(SeqProc, u)
          \/ CallCanResend(SeqProc, u)
          \/ CallMarkResent(SeqProc, u)
          \/ \E c \in Codes : CallPutOTP3(SeqProc, u, c)
          \/ CallGetOTP3(SeqProc, u)
          \/ CallDelOTP3(SeqProc, u)
          \/ CallCanResend3(SeqProc, u)
          \/ CallMarkResent3(SeqProc, u)
          \/ \E c \in Codes : CallPutOTPMem(SeqProc, u, c)
          \/ CallGetOTPMem(SeqProc, u)
          \/ CallDelOTPMem(SeqProc, u)
          \/ CallCanResendMem(SeqProc, u)
          \/ CallMarkResentMem(SeqProc, u)
  \/ \E p \in Procs : StepsStores(p)
  \/ Tick

SpecSeq == InitApi /\ [][NextSeq]_vars

(* Time passes only between requests: every request is served within    *)
(* one millisecond.                                                       *)
TickIdle == AllIdle /\ Tick

(* The exported operations of each store layout and the requests to the *)
(* two handlers, one at a time, each served without time passing.         *)
NextInstant ==
  \/ /\ AllIdle
     /\ \E u \in Subjects :
          \/ \E c \in Codes : CallPutOTP(SeqProc, u, c)
          \/ CallMarkResent(SeqProc, u)
          \/ \E otp \in Otps : CallVerify(SeqProc, u, otp)
          \/ \E c \in Codes : CallPutOTP3(SeqProc, u, c)
          \/ CallMarkResent3(SeqProc, u)
          \/ \E c \in StartCodes : ReqStart(SeqProc, u, c)
  \/ \E p \in Procs : Steps(p)
  \/ \E p \in Procs : Pttl3(p)
  \/ \E p \in Procs, k \in AllKeys3 : All3(p, k)
  \/ \E p \in Procs : Cd3(p)
  \/ TickIdle

SpecInstant == InitApi /\ [][NextInstant]_vars

(* The same calls on a store that may hold a value that is not JSON      *)
(* under the entry key of either redis layout.                            *)
InitLegacy == \E v \in Variants : InitStoreIn(v, {"single", "three"})

SpecLegacy == InitLegacy /\ [][NextSeq]_vars

BgProc == "r2"

(* A resend arrives while the stored entry has used up its attempts. *)
LateMarkResent(p, u) ==
  /\ RedisGet(store, keyFor(u)).attempts >= MAX_VERIFY_ATTEMPTS
  /\ CallMarkResent(p, u)

(* Verify requests of one client, one at a time, against a single-key    *)
(* store on which a second request may run markResent meanwhile; putOTP   *)
(* issues when nothing is in flight.                                      *)
NextConc ==
  \/ /\ AllIdle
     /\ \E u \in Subjects, c \in Codes : CallPutOTP(SeqProc, u, c)
  \/ \E u \in Subjects, otp \in Otps : ReqVerify(SeqProc, u, otp)
  \/ \E u \in Subjects : LateMarkResent(BgProc, u)
  \/ \E p \in Procs : StepsApi(p)
  \/ Tick

(* The counts of calls made one after the other are not kept here. *)
InitConc ==
  /\ now = 0
  /\ variant = "single"
  /\ store = [k \in Keys |-> AbsentCell]
  /\ rq = [p \in Procs |-> Idle]
  /\ hist = [HistInit EXCEPT !.seq = FALSE]

SpecConc == InitConc /\ [][NextConc]_vars

(* Verify requests for one subject that may overlap; putOTP issues when  *)
(* nothing is in flight.                                                  *)
NextVerifies ==
  \/ /\ AllIdle
     /\ \E u \in Subjects, c \in Codes : CallPutOTP(SeqProc, u, c)
  \/ \E p \in Procs, u \in Subjects, otp \in Otps : CallVerify(p, u, otp)
  \/ \E p \in Procs : StepsApi(p)
  \/ Tick

SpecVerifies == InitConc /\ [][NextVerifies]_vars

(* The steps of a start request once begun. *)
StepsStart(p) ==
  \/ GetStep(p)
  \/ GetDel(p)
  \/ SaveSet(p)
  \/ SaveDel(p)
  \/ PutSet(p)
  \/ SendEmail(p)
  \/ SendEmailFails(p)
  \/ Recycle(p)

(* Start requests for one subject that may overlap. *)
NextStarts ==
  \/ \E p \in Procs, u \in Subjects, c \in Codes : ReqStart(p, u, c)
  \/ \E p \in Procs : StepsStart(p)
  \/ Tick

SpecStarts == Init /\ [][NextStarts]_vars

(* Start requests for one subject that may overlap, each with the code  *)
(* it drew.                                                               *)
NextIssues ==
  \/ \E p \in Procs, u \in Subjects, c \in StartCodes : ReqStart(p, u, c)
  \/ \E p \in Procs : StepsStart(p)
  \/ Tick

SpecIssues == InitConc /\ [][NextIssues]_vars

(* A resend arrives while the stored entry has counted fewer than        *)
(* MaxApiAttempts resends.                                                *)
EarlyMarkResent(p, u) ==
  /\ RedisGet(store, keyFor(u)).resendCount < MaxApiAttempts
  /\ CallMarkResent(p, u)

(* Verify requests of one client and markResent calls of another, which  *)
(* may overlap; putOTP issues when nothing is in flight.                  *)
NextLife ==
  \/ /\ AllIdle
     /\ \E u \in Subjects, c \in Codes : CallPutOTP(SeqProc, u, c)
  \/ \E u \in Subjects, otp \in Otps : CallVerify(SeqProc, u, otp)
  \/ \E u \in Subjects : EarlyMarkResent(BgProc, u)
  \/ \E p \in Procs : StepsApi(p)
  \/ Tick

(* The expiresAt of the latest issue is kept here. *)
InitLife ==
  /\ now = 0
  /\ variant = "single"
  /\ store = [k \in Keys |-> AbsentCell]
  /\ rq = [p \in Procs |-> Idle]
  /\ hist = [HistInit EXCEPT !.seq = FALSE, !.life = TRUE]

SpecLife == InitLife /\ [][NextLife]_vars

(* The two handlers of server.js, one request at a time. *)
Next ==
  \/ /\ AllIdle
     /\ \E u \in Subjects :
          \/ \E otp \in Otps : ReqVerify(SeqProc, u, otp)
          \/ \E c \in StartCodes : ReqStart(SeqProc, u, c)
  \/ \E p \in Procs : Steps(p)
  \/ Tick

Spec == Init /\ [][Next]_vars

(* The store after a complete putOTP(u, email, code) at the present time *)
(* in the running layout.                                                 *)
PutDone(s, u, code) ==
  CASE variant = "single" -> RedisSet(s, keyFor(u), NewEntry(u, code), OTP_TTL_MS)
    [] variant = "three" ->
         RedisSet(RedisSet(RedisSet(s, kCode(u), HashValue(Hash(code)), OTP_TTL_MS),
                           kMeta(u), NewEntry(u, code), OTP_TTL_MS),
                  kCd(u), FlagValue, RESEND_COOLDOWN_MS)
    [] OTHER -> MapSet(s, mapKey(u), NewEntry(u, code))

(* A code has just been issued to another user; the counts of calls are  *)
(* not kept here.                                                         *)
InitPair ==
  /\ now = 0
  /\ \E v \in Variants : variant = v
  /\ \E b \in Bystanders, c \in Codes :
       store = PutDone([k \in Keys |-> AbsentCell], b, c)
  /\ rq = [p \in Procs |-> Idle]
  /\ hist = [HistInit EXCEPT !.seq = FALSE]

(* Every operation of the store layouts and both handlers, called for    *)
(* one user while the store holds the entry of another.                   *)
NextPair ==
  \/ NextSeq
  \/ /\ AllIdle
     /\ \E u \in Subjects :
          \/ \E otp \in Otps : CallVerify(SeqProc, u, otp)
          \/ \E c \in Codes : ReqStart(SeqProc, u, c)
  \/ \E p \in Procs : Steps(p)

SpecPair == InitPair /\ [][NextPair]_vars

----------------------------------------------------------------------------
(* What getOTP returns in the current state (None for null). *)
Fetch(u) ==
  LET r2 == getOTP(Begin("getOTP", u, "-"))
  IN  IF r2.pc = "done" THEN r2.ret ELSE None

(* The request has answered. *)
Answered(p, op) == rq[p].pc = "done" /\ rq[p].op = op

(* The value the request found at its first access was an entry that     *)
(* getOTP returns: stored, well-formed, not past expiresAt.               *)
FoundLive(r) == r.pre.kind = "entry" /\ r.t0 <= r.pre.expiresAt

(* C1: after putOTP has completed, and until expiresAt, getOTP returns   *)
(* an entry with attempts 0, resendCount 0, lastSentAt the issue time and *)
(* expiresAt the issue time plus OTP_TTL_MS, whatever the store held      *)
(* before.                                                                *)
C1_IssueThenFetch ==
  \A p \in Procs :
    (Answered(p, "putOTP") /\ now < rq[p].t0 + OTP_TTL_MS) =>
      Fetch(rq[p].u) =
        Val("entry", EmailOf(rq[p].u), Hash(rq[p].otp), rq[p].t0 + OTP_TTL_MS,
            0, rq[p].t0, 0)

C1_Witness ==
  \E p \in Procs :
    /\ Answered(p, "putOTP")
    /\ FoundLive(rq[p]) /\ rq[p].pre.attempts > 0 /\ rq[p].pre.resendCount > 0
    /\ now > rq[p].t0 + 1 /\ now < rq[p].t0 + OTP_TTL_MS
    /\ Fetch(rq[p].u).kind = "entry"

(* The entry the store holds for the subject (None when it holds none). *)
Stored(u) == RedisGet(store, mainKey(u))

(* C2: a verify that finds a live entry with attempts below the cap and  *)
(* carries its code is answered ok:true (when users.updatePassword        *)
(* succeeds) and leaves no entry; at most one verify is answered ok:true  *)
(* per issue, and a verify that begins after it is answered expired.      *)
C2_VerifyOkOnce ==
  /\ \A u \in Subjects : hist.okCount[u] <= 1
  /\ \A p \in Procs :
       Answered(p, "verify") =>
         /\ (/\ FoundLive(rq[p])
             /\ rq[p].pre.attempts < MAX_VERIFY_ATTEMPTS
             /\ Compare(rq[p].otp, rq[p].pre.codeHash)
             /\ rq[p].res # "update_failed") => rq[p].res = "ok"
         /\ rq[p].res = "ok" => Stored(rq[p].u).kind = "none"
         /\ rq[p].sawOk => rq[p].res = "expired"

C2_Witness ==
  \E p \in Procs :
    /\ Answered(p, "verify")
    /\ rq[p].sawOk /\ rq[p].otp \in Codes /\ rq[p].res = "expired"
    /\ hist.okCount[rq[p].u] = 1

(* C3: a verify that finds a live entry and carries another code, with   *)
(* the incremented attempts within the cap, is answered invalid_code and  *)
(* leaves the entry stored with attempts one higher.                      *)
C3_WrongCode ==
  \A p \in Procs :
    (/\ Answered(p, "verify")
     /\ FoundLive(rq[p])
     /\ ~Compare(rq[p].otp, rq[p].pre.codeHash)
     /\ rq[p].pre.attempts + 1 <= MAX_VERIFY_ATTEMPTS
     /\ now <= rq[p].pre.expiresAt) =>
       /\ rq[p].res = "invalid_code"
       /\ Stored(rq[p].u) = [rq[p].pre EXCEPT !.attempts = rq[p].pre.attempts + 1]

(* C3, amended: the same for an entry found strictly before its         *)
(* expiresAt.  (At now = expiresAt getOTP still returns the entry and     *)
(* saveOTPEntry, with no TTL left to keep, deletes it.)                   *)
C3_WrongCodeBeforeExpiry ==
  \A p \in Procs :
    (/\ Answered(p, "verify")
     /\ FoundLive(rq[p]) /\ rq[p].t0 < rq[p].pre.expiresAt
     /\ ~Compare(rq[p].otp, rq[p].pre.codeHash)
     /\ rq[p].pre.attempts + 1 <= MAX_VERIFY_ATTEMPTS
     /\ now <= rq[p].pre.expiresAt) =>
       /\ rq[p].res = "invalid_code"
       /\ Stored(rq[p].u) = [rq[p].pre EXCEPT !.attempts = rq[p].pre.attempts + 1]

C3_Witness ==
  \E p \in Procs :
    /\ Answered(p, "verify")
    /\ FoundLive(rq[p]) /\ rq[p].t0 < rq[p].pre.expiresAt
    /\ ~Compare(rq[p].otp, rq[p].pre.codeHash)
    /\ rq[p].pre.attempts + 1 = MAX_VERIFY_ATTEMPTS
    /\ rq[p].res = "invalid_code"
    /\ Stored(rq[p].u).attempts = MAX_VERIFY_ATTEMPTS

(* C4: once MAX_VERIFY_ATTEMPTS + 1 verify calls with another code than  *)
(* the entry's have been made against it, one after the other, the store  *)
(* holds no entry for the subject, and a verify that begins then is       *)
(* answered expired.                                                      *)
C4_CapDeletes ==
  /\ \A u \in Subjects :
       hist.wrongRun[u] >= MAX_VERIFY_ATTEMPTS + 1 => Stored(u).kind = "none"
  /\ \A p \in Procs :
       (Answered(p, "verify") /\ rq[p].sawWrong >= MAX_VERIFY_ATTEMPTS + 1) =>
         rq[p].res = "expired"

C4_Witness ==
  \E p \in Procs :
    /\ Answered(p, "verify")
    /\ rq[p].sawWrong = MAX_VERIFY_ATTEMPTS + 1
    /\ rq[p].res = "expired"

(* C5: once a verify for the subject has been answered                  *)
(* too_many_attempts, a verify that begins afterwards, with no new issue  *)
(* in between, is answered expired, whatever other requests are in        *)
(* flight.                                                                *)
C5_FailClosed ==
  \A p \in Procs :
    (Answered(p, "verify") /\ rq[p].sawCap) => rq[p].res = "expired"

(* C6: canResend on a live entry inside the cooldown window answers     *)
(* cooldown with retryInMs = RESEND_COOLDOWN_MS - (now - lastSentAt), a   *)
(* value in (0, RESEND_COOLDOWN_MS]; once the window has passed and       *)
(* resendCount < MAX_RESENDS it answers allowed.                          *)
C6_Cooldown ==
  \A p \in Procs :
    (Answered(p, "canResend") /\ FoundLive(rq[p])) =>
      LET elapsed == rq[p].t0 - rq[p].pre.lastSentAt
      IN  /\ elapsed < RESEND_COOLDOWN_MS =>
               /\ rq[p].res = "cooldown"
               /\ rq[p].retry = RESEND_COOLDOWN_MS - elapsed
               /\ rq[p].retry > 0 /\ rq[p].retry <= RESEND_COOLDOWN_MS
          /\ (elapsed >= RESEND_COOLDOWN_MS /\ rq[p].pre.resendCount < MAX_RESENDS) =>
               rq[p].res = "allowed"

C6_Witness ==
  \E p \in Procs :
    /\ Answered(p, "canResend") /\ FoundLive(rq[p])
    /\ rq[p].t0 - rq[p].pre.lastSentAt = 1
    /\ rq[p].res = "cooldown" /\ rq[p].retry = RESEND_COOLDOWN_MS - 1

(* C7: canResend on a live entry whose cooldown window has passed        *)
(* answers limit when markResent has been applied to the entry           *)
(* MAX_RESENDS times or more, and allowed when fewer times.               *)
C7_ResendLimit ==
  \A p \in Procs :
    (/\ Answered(p, "canResend") /\ FoundLive(rq[p])
     /\ rq[p].t0 - rq[p].pre.lastSentAt >= RESEND_COOLDOWN_MS
     /\ now <= rq[p].pre.expiresAt) =>
       /\ hist.marks[rq[p].u] >= MAX_RESENDS => rq[p].res = "limit"
       /\ hist.marks[rq[p].u] < MAX_RESENDS => rq[p].res = "allowed"

(* The limit answer after MAX_RESENDS resends, each made once the        *)
(* cooldown since the delivery before it had passed.                      *)
C7_Witness ==
  \E p \in Procs :
    /\ Answered(p, "canResend") /\ FoundLive(rq[p])
    /\ hist.marks[rq[p].u] = MAX_RESENDS
    /\ rq[p].pre.lastSentAt - (rq[p].pre.expiresAt - OTP_TTL_MS)
         >= MAX_RESENDS * RESEND_COOLDOWN_MS
    /\ rq[p].t0 - rq[p].pre.lastSentAt >= RESEND_COOLDOWN_MS
    /\ rq[p].res = "limit"

C9_NoEntryAllowed ==
  \A p \in Procs :
    (Answered(p, "canResend") /\ ~FoundLive(rq[p])) => rq[p].res = "allowed"

(* C10: canResend leaves the store as it found it (up to the keys the    *)
(* store itself has expired in the meantime), also when it found an       *)
(* expired or malformed value.                                            *)
C10_CanResendPure ==
  \A p \in Procs :
    Answered(p, "canResend") => store = Evict(rq[p].snap, now)

(* The value found is one getOTP purges: not an entry, or an entry past  *)
(* its expiresAt.                                                         *)
FoundStale(r) ==
  \/ r.pre.kind = "bad"
  \/ r.pre.kind = "entry" /\ r.t0 > r.pre.expiresAt

(* C10, amended: canResend leaves the store as it found it, except that  *)
(* an expired or malformed value found under the subject's key is         *)
(* deleted.                                                               *)
C10_CanResendFrame ==
  \A p \in Procs :
    Answered(p, "canResend") =>
      store = Evict(IF FoundStale(rq[p])
                    THEN RedisDel(rq[p].snap, keyFor(rq[p].u))
                    ELSE rq[p].snap, now)

C10_Witness ==
  \E p \in Procs :
    /\ Answered(p, "canResend")
    /\ FoundStale(rq[p]) /\ rq[p].pre.kind = "bad"
    /\ Stored(rq[p].u).kind = "none"

StoreExpiry(u) == store[mainKey(u)].exp

(* C12: after markResent or the attempts bookkeeping of verify on a live *)
(* entry, the store evicts the subject's key no later than the entry's    *)
(* expiresAt, in the single-key and in the three-key layout.              *)
C12_StoreExpiryKept ==
  \A p \in Procs :
    (/\ Answered(p, "markResent") \/ Answered(p, "verify")
     /\ FoundLive(rq[p])
     /\ variant \in {"single", "three"}
     /\ Stored(rq[p].u).kind = "entry") =>
       /\ StoreExpiry(rq[p].u) # NoExpiry
       /\ StoreExpiry(rq[p].u) <= rq[p].pre.expiresAt

(* C13: getOTP never returns an entry past its expiresAt: when the      *)
(* store still holds such an entry, getOTP answers null and the subject's *)
(* key is deleted.                                                        *)
C13_NoExpiredFetch ==
  \A p \in Procs :
    Answered(p, "getOTP") =>
      /\ rq[p].ret.kind = "entry" => rq[p].t0 <= rq[p].ret.expiresAt
      /\ (rq[p].pre.kind = "entry" /\ rq[p].t0 > rq[p].pre.expiresAt) =>
           /\ rq[p].res = "null"
           /\ Stored(rq[p].u).kind = "none"

(* The store still held the expired entry when getOTP read it. *)
C13_Witness ==
  \E p \in Procs :
    /\ variant = "single"
    /\ Answered(p, "getOTP")
    /\ rq[p].pre.kind = "entry" /\ rq[p].t0 > rq[p].pre.expiresAt
    /\ rq[p].res = "null"
    /\ Stored(rq[p].u).kind = "none"

(* C14: getOTP on a stored value that is not a well-formed entry        *)
(* answers null, raises nothing, and deletes the value, in every store    *)
(* layout.                                                                *)
C14_MalformedPurged ==
  \A p \in Procs :
    (Answered(p, "getOTP") /\ rq[p].pre.kind = "bad") =>
      /\ rq[p].res = "null"
      /\ Stored(rq[p].u).kind = "none"

(* The step stores a new entry for the subject (putOTP's write). *)
Issued(u) ==
  \E p \in Procs : rq[p].pc = "put_set" /\ rq[p].u = u /\ rq'[p].pc # "put_set"

(* C15: while the store holds one and the same entry (no new issue, no   *)
(* destruction in between), no step lowers the stored attempts or the     *)
(* stored resendCount, whatever verify and markResent requests run        *)
(* concurrently.                                                          *)
C15_CountersMonotone ==
  [][\A u \in Subjects :
       (Stored(u).kind = "entry" /\ Stored(u)'.kind = "entry" /\ ~Issued(u)) =>
         /\ Stored(u)'.attempts >= Stored(u).attempts
         /\ Stored(u)'.resendCount >= Stored(u).resendCount]_vars

(* C16: while the store holds one and the same entry, no step of a      *)
(* start or verify request changes its codeHash, and a start request that *)
(* found a live entry never reaches putOTP.                               *)
C16_CodeHashWriteOnce ==
  /\ [][\A u \in Subjects :
          (Stored(u).kind = "entry" /\ Stored(u)'.kind = "entry" /\ ~Issued(u)) =>
            Stored(u)'.codeHash = Stored(u).codeHash]_vars
  /\ [](\A p \in Procs :
          (rq[p].pc \notin {"idle", "begin"} /\ rq[p].op = "start" /\ FoundLive(rq[p])) =>
            /\ rq[p].pc # "put_set"
            /\ rq[p].res # "ok_issued")

(* A resend was delivered and marked, by a request that had drawn        *)
(* another code than the entry's, and the stored codeHash is the          *)
(* entry's.                                                               *)
C16_Witness ==
  \E p \in Procs :
    /\ Answered(p, "start") /\ FoundLive(rq[p])
    /\ rq[p].res = "ok_resent"
    /\ Hash(rq[p].otp) # rq[p].pre.codeHash
    /\ Stored(rq[p].u).codeHash = rq[p].pre.codeHash
    /\ Stored(rq[p].u).resendCount = rq[p].pre.resendCount + 1

(* C17: a verify that matched the code of a live entry and whose        *)
(* users.updatePassword failed leaves the entry stored, with its codeHash *)
(* and expiresAt, so that the same code still matches it; the entry is    *)
(* not deleted before the mutation has succeeded.                         *)
C17_FailureKeepsEntry ==
  \A p \in Procs :
    (/\ rq[p].pc \in {"upd_pw", "done"} /\ rq[p].op = "verify"
     /\ rq[p].pc = "done" => rq[p].res = "update_failed"
     /\ now <= rq[p].pre.expiresAt) =>
       /\ Stored(rq[p].u).kind = "entry"
       /\ Stored(rq[p].u).codeHash = rq[p].pre.codeHash
       /\ Stored(rq[p].u).expiresAt = rq[p].pre.expiresAt
       /\ Compare(rq[p].otp, Stored(rq[p].u).codeHash)

(* C17, amended: the same for a verify that found the entry strictly     *)
(* before its expiresAt.  (At now = expiresAt the attempts bookkeeping    *)
(* has already deleted the entry when the code is compared.)              *)
C17_FailureKeepsEntryBeforeExpiry ==
  \A p \in Procs :
    (/\ rq[p].pc \in {"upd_pw", "done"} /\ rq[p].op = "verify"
     /\ rq[p].pc = "done" => rq[p].res = "update_failed"
     /\ rq[p].t0 < rq[p].pre.expiresAt
     /\ now <= rq[p].pre.expiresAt) =>
       /\ Stored(rq[p].u).kind = "entry"
       /\ Stored(rq[p].u).codeHash = rq[p].pre.codeHash
       /\ Stored(rq[p].u).expiresAt = rq[p].pre.expiresAt
       /\ Stored(rq[p].u).attempts = rq[p].pre.attempts + 1
       /\ Compare(rq[p].otp, Stored(rq[p].u).codeHash)

(* A verify answered ok:true after an earlier verify of the same entry   *)
(* failed in users.updatePassword.                                        *)
C17_Witness ==
  \E p \in Procs :
    /\ Answered(p, "verify") /\ rq[p].res = "ok"
    /\ hist.failed[rq[p].u]
    /\ rq[p].pre.attempts > 0
    /\ Stored(rq[p].u).kind = "none"

(* The step is a sendEmail to the subject that succeeds. *)
Delivered(u) ==
  \E p \in Procs :
    /\ rq[p].pc = "mail" /\ rq[p].u = u
    /\ rq'[p].pc # "mail" /\ rq'[p].res # "mail_failed"

(* C18: any two consecutive emails (issue or resend) to one subject are *)
(* at least RESEND_COOLDOWN_MS apart, whatever start and verify requests  *)
(* are made.                                                              *)
C18_DeliverySpacing ==
  [][\A u \in Subjects :
       (Delivered(u) /\ hist.mailAge[u] # NoMail) =>
         hist.mailAge[u] >= RESEND_COOLDOWN_MS]_vars

(* C19: no more than MAX_RESENDS resend emails are sent for one entry,  *)
(* whatever start requests overlap.                                       *)
C19_ResendCap == \A u \in Subjects : hist.resends[u] <= MAX_RESENDS

(* The verify request has made its saveOTPEntry write. *)
Wrote(r) ==
  /\ r.pc \in {"upd_pw", "del", "done"} /\ r.op = "verify"
  /\ FoundLive(r) /\ r.t0 < r.pre.expiresAt

(* C20: when two overlapping verify requests have both read the same     *)
(* entry with attempts = N and both have written it back, the stored      *)
(* attempts is N + 1: one lower than the two requests processed.          *)
C20_AttemptsRace ==
  \A p \in Procs : \A q \in Procs \ {p} :
    (/\ Wrote(rq[p]) /\ Wrote(rq[q])
     /\ rq[p].u = rq[q].u /\ rq[p].pre = rq[q].pre
     /\ Stored(rq[p].u).kind = "entry") =>
       Stored(rq[p].u).attempts = rq[p].pre.attempts + 1

C20_Witness ==
  \E p \in Procs : \E q \in Procs \ {p} :
    /\ Wrote(rq[p]) /\ Wrote(rq[q])
    /\ rq[p].u = rq[q].u /\ rq[p].pre = rq[q].pre
    /\ rq[p].pc = "done" /\ rq[p].res = "invalid_code"
    /\ Stored(rq[p].u).kind = "entry"
    /\ Stored(rq[p].u).attempts = rq[p].pre.attempts + 1

(* C21: after delOTP has returned, whatever the store held, it holds    *)
(* nothing under any key of the subject, so that a second delOTP finds    *)
(* and leaves the store as the first left it; the call returns normally   *)
(* whether or not an entry existed.                                       *)
C21_DelIdempotent ==
  \A p \in Procs :
    Answered(p, "delOTP") =>
      /\ rq[p].res = "void"
      /\ \A k \in KeysOf(rq[p].u) : store[k] = AbsentCell

(* A delOTP that found nothing to delete: the second of two calls. *)
C21_Witness ==
  \E p \in Procs :
    /\ Answered(p, "delOTP")
    /\ rq[p].pre.kind = "none" /\ hist.dels[rq[p].u] >= 2
    /\ \A k \in KeysOf(rq[p].u) : store[k] = AbsentCell

(* C22: no step of an operation or handler invoked for one user changes *)
(* the value or the expiry the store holds under a key of another user;   *)
(* such a key changes only when the store expires it.                     *)
C22_SubjectsIndependent ==
  [][\A b \in Bystanders : \A k \in KeysOf(b) :
       /\ now' = now => store'[k] = store[k]
       /\ store'[k] \in {store[k], AbsentCell}]_vars

(* An entry has been issued to the one user and deleted again while the  *)
(* entry of the other is stored as it was issued.                         *)
C22_Witness ==
  \E p \in Procs : \E b \in Bystanders :
    /\ Answered(p, "delOTP") /\ rq[p].pre.kind = "entry"
    /\ store[mainKey(b)].val.kind = "entry"
    /\ store[mainKey(b)].val.email = EmailOf(b)
    /\ store[mainKey(b)].val.lastSentAt = 0
    /\ Stored(rq[p].u).kind = "none"

(* C23: a verify that finds no live entry is answered expired, never    *)
(* reaches users.updatePassword, and none of its steps changes the store. *)
C23_VerifyAbsentNoWrite ==
  [][\A p \in Procs :
       (/\ rq'[p].pc # "idle" /\ rq'[p].pc # rq[p].pc
        /\ rq'[p].op = "verify" /\ ~FoundLive(rq'[p])) =>
         /\ rq'[p].pc \in {"get_del", "done"}
         /\ rq'[p].pc = "done" => rq'[p].res = "expired"
         /\ store' = store]_vars

(* C23, amended: the same, except that the step that deletes an expired  *)
(* or malformed value found under the subject's key removes that key.     *)
C23_VerifyAbsentFrame ==
  [][\A p \in Procs :
       (/\ rq'[p].pc # "idle" /\ rq'[p].pc # rq[p].pc
        /\ rq'[p].op = "verify" /\ ~FoundLive(rq'[p])) =>
         /\ rq'[p].pc \in {"get_del", "done"}
         /\ rq'[p].pc = "done" =>
              /\ rq'[p].res = "expired"
              /\ RedisGet(store', mainKey(rq'[p].u)).kind = "none"
         /\ \/ store' = store
            \/ /\ rq[p].pc = "get_del" /\ FoundStale(rq'[p])
               /\ store' = RedisDel(store, keyFor(rq'[p].u))]_vars

(* A verify answered expired for a subject whose entry had been          *)
(* destroyed by an earlier verify.                                        *)
C23_Witness ==
  \E p \in Procs :
    /\ Answered(p, "verify") /\ rq[p].pre.kind = "none"
    /\ rq[p].sawOk
    /\ rq[p].res = "expired"
    /\ Stored(rq[p].u).kind = "none"

(* C24: a verify carrying the entry's own code that finds a live entry  *)
(* with MAX_VERIFY_ATTEMPTS attempts already recorded never reaches       *)
(* users.updatePassword; it is answered too_many_attempts and the store   *)
(* holds no entry for the subject afterwards.                             *)
C24_CapBeforeCompare ==
  \A p \in Procs :
    (/\ rq[p].pc # "idle" /\ rq[p].op = "verify" /\ FoundLive(rq[p])
     /\ rq[p].pre.attempts + 1 > MAX_VERIFY_ATTEMPTS
     /\ Compare(rq[p].otp, rq[p].pre.codeHash)) =>
      /\ rq[p].pc # "upd_pw"
      /\ rq[p].ctx # "verify/ok"
      /\ rq[p].pc = "done" =>
           /\ rq[p].res = "too_many_attempts"
           /\ Stored(rq[p].u).kind = "none"

C24_Witness ==
  \E p \in Procs :
    /\ Answered(p, "verify") /\ FoundLive(rq[p])
    /\ rq[p].pre.attempts = MAX_VERIFY_ATTEMPTS
    /\ Compare(rq[p].otp, rq[p].pre.codeHash)
    /\ rq[p].res = "too_many_attempts"
    /\ Stored(rq[p].u).kind = "none"

(* C25: whatever start requests overlap, no putOTP write lands on a     *)
(* subject whose entry is still live, and the code carried by an issuance *)
(* email is the one whose hash the subject's stored entry holds.          *)
C25_SingleIssue ==
  [][\A p \in Procs :
       /\ (rq[p].pc = "put_set" /\ rq'[p].pc # "put_set") =>
            ~(/\ Stored(rq[p].u).kind = "entry"
              /\ now <= Stored(rq[p].u).expiresAt)
       /\ (/\ rq[p].pc = "mail" /\ rq[p].ctx = "start/issue"
           /\ rq'[p].pc = "done" /\ rq'[p].res = "ok_issued"
           /\ Stored(rq[p].u).kind = "entry") =>
            Compare(rq[p].otp, Stored(rq[p].u).codeHash)]_vars

(* C26: only an issue creates an entry: no step other than putOTP's    *)
(* write takes the store from holding no entry for a subject to holding   *)
(* one, whatever markResent and verify writes are in flight.              *)
C26_OnlyIssueCreates ==
  [][\A u \in Subjects :
       (Stored(u).kind = "none" /\ Stored(u)'.kind = "entry") => Issued(u)]_vars

(* C27: between two issues at most one verify request for the subject  *)
(* gets past users.updatePassword (answered ok or on its way to the       *)
(* answer), whatever verify requests carrying the entry's code overlap.   *)
C27_OneMutation ==
  \A u \in Subjects :
    hist.okCount[u]
      + Cardinality({p \in Procs : /\ rq[p].pc \notin {"idle", "done"}
                                   /\ rq[p].u = u
                                   /\ rq[p].ctx = "verify/ok"}) <= 1

(* C28: when the canResend of a start request reads a live entry and   *)
(* refuses (cooldown or limit), the request is answered 429 at that step: *)
(* the store is left as it is, the entry is the one the request found at  *)
(* its start, and no email goes out.                                      *)
C28_DeniedStartFrame ==
  [][\A p \in Procs :
       (/\ rq[p].pc = "get" /\ rq[p].ctx = "start/canResend"
        /\ rq'[p] # rq[p]
        /\ Stored(rq[p].u).kind = "entry" /\ now <= Stored(rq[p].u).expiresAt
        /\ ~canResendGate(Stored(rq[p].u)).ok) =>
         /\ rq'[p].pc = "done"
         /\ rq'[p].res \in {"429_cooldown", "429_limit"}
         /\ rq'[p].ctx = "start/canResend"
         /\ store' = store
         /\ Stored(rq[p].u) = rq[p].pre
         /\ hist'.mailAge = hist.mailAge /\ hist'.resends = hist.resends]_vars

(* A start refused on the limit, after the cooldown, with the entry as    *)
(* found.                                                                 *)
C28_Witness ==
  \E p \in Procs :
    /\ Answered(p, "start") /\ rq[p].res = "429_limit"
    /\ rq[p].pre.resendCount = MAX_RESENDS
    /\ Stored(rq[p].u) = rq[p].pre
    /\ hist.mailAge[rq[p].u] = RESEND_COOLDOWN_MS

(* C29: once a start request that issued an entry has answered, and no  *)
(* request is in flight, a live stored entry holding the hash of that     *)
(* request's code has had its issuance email sent successfully.           *)
C29_LiveEntryDelivered ==
  \A p \in Procs :
    (/\ Answered(p, "start") /\ rq[p].ctx = "start/issue"
     /\ \A q \in Procs : rq[q].pc \in {"idle", "done"}
     /\ Stored(rq[p].u).kind = "entry" /\ now <= Stored(rq[p].u).expiresAt
     /\ Compare(rq[p].otp, Stored(rq[p].u).codeHash)) =>
      rq[p].res = "ok_issued"

(* C30: a verify request that gets as far as users.updatePassword began *)
(* no later than the expiresAt of the entry it read, and no live stored   *)
(* entry carries an expiresAt beyond issue time + ttl of the latest       *)
(* issue, whatever verify and markResent calls overlap.                   *)
C30_NoUseAfterExpiry ==
  /\ \A p \in Procs :
       (/\ rq[p].pc # "idle" /\ rq[p].op = "verify"
        /\ \/ rq[p].pc = "upd_pw"
           \/ rq[p].ctx = "verify/ok"
           \/ rq[p].res \in {"ok", "update_failed"}) =>
         /\ rq[p].pre.kind = "entry"
         /\ rq[p].t0 <= rq[p].pre.expiresAt
  /\ \A u \in Subjects :
       (Stored(u).kind = "entry" /\ now <= Stored(u).expiresAt) =>
         Stored(u).expiresAt <= hist.lastExp[u]

(* A verify with the entry's code, begun after the entry's expiresAt     *)
(* while the store still held it (kept by a late markResent write), is    *)
(* answered expired.                                                      *)
C30_Witness ==
  \E p \in Procs :
    /\ Answered(p, "verify")
    /\ rq[p].pre.kind = "entry" /\ rq[p].t0 > rq[p].pre.expiresAt
    /\ rq[p].pre.resendCount > 0
    /\ Compare(rq[p].otp, rq[p].pre.codeHash)
    /\ rq[p].res = "expired"

============================================================================
